---- MODULE Spec2Model ----
(***************************************************************************)
(* Model of src/app.py: a Flask service whose module-level startup code    *)
(* reads GEMINI_API_KEY, tries a fixed list of Gemini model names, and     *)
(* then serves /api/health and /api/ai-doctor.                             *)
(*                                                                         *)
(* Python strings that the code slices or strips are sequences of          *)
(* one-character strings.  An f-string "<literal>{text}" is the record     *)
(* [prefix |-> literal, text |-> text]; a plain literal has text = <<>>.   *)
(* JSON bodies built by jsonify are records with the dict's keys.          *)
(***************************************************************************)
EXTENDS Integers, Sequences, FiniteSets, TLC

VARIABLES pc, GEMINI_API_KEY, configured, model, idx, log, inflight, last

vars == <<pc, GEMINI_API_KEY, configured, model, idx, log, inflight, last>>

(* ------------------------------ bounds --------------------------------- *)
\* number of worker threads handling requests concurrently
MaxReq == 2
\* longest "message" string a client sends
MaxMsgLen == 2
\* longest text the upstream completion returns
MaxTextLen == 1
\* longest exception text (one more than the truncation length)
MaxErrLen == 101

(* ------------------------ program constants ---------------------------- *)
\* str(e)[:100], error_msg[:100]
TruncLen == 100

\* Python's None
NoneVal == "<None>"

models_to_try ==
    <<"gemini-2.0-flash-exp", "gemini-1.5-pro", "gemini-1.5-flash", "gemini-pro">>

(* ------------------------ Python string helpers ------------------------ *)
Min(a, b) == IF a < b THEN a ELSE b

\* s[:n] cut one character short
SliceOffByOne(s, n) == SubSeq(s, 1, Min(Len(s), n - 1))

\* s[:n]
Slice(s, n) == SubSeq(s, 1, Min(Len(s), n))

IsSpace(c) == c = " "

RECURSIVE lstrip(_)
lstrip(s) ==
    IF s = <<>> THEN <<>>
    ELSE IF IsSpace(Head(s)) THEN lstrip(Tail(s)) ELSE s

RECURSIVE rstrip(_)
rstrip(s) ==
    IF s = <<>> THEN <<>>
    ELSE IF IsSpace(s[Len(s)]) THEN rstrip(SubSeq(s, 1, Len(s) - 1)) ELSE s

\* str.strip()
strip(s) == rstrip(lstrip(s))

\* f"{prefix}{text}"
fstr(prefix, text) == [prefix |-> prefix, text |-> text]

\* a string literal
lit(s) == fstr(s, <<>>)

(* ------------------------------ inputs --------------------------------- *)
SeqsUpTo(A, n) == UNION {[1..k -> A] : k \in 0..n}

\* message strings a client may send
Messages == SeqsUpTo({" ", "a"}, MaxMsgLen)

\* texts the upstream completion may return
Texts == SeqsUpTo({" ", "r"}, MaxTextLen)

\* an exception text of length n whose last character differs from the rest
ErrText(n) == [i \in 1..n |-> IF i = n THEN "z" ELSE "e"]

ErrLens == {0} \cup ((TruncLen - 1)..MaxErrLen)

ErrTexts == {ErrText(n) : n \in ErrLens}

\* what os.getenv("GEMINI_API_KEY") can return: unset, set but empty, set
KeyValues == {NoneVal, "", "key"}

\* request bodies of POST /api/ai-doctor
\*   absent            no JSON content type
\*   malformed         JSON content type, body does not parse
\*   null, empty_list, empty_dict    falsy JSON values
\*   list              a non-empty JSON array
\*   dict_no_message   a non-empty object without "message"
\*   dict_message_str  an object whose "message" is a string
\*   dict_message_num  an object whose "message" is a number
BodyKinds ==
    {"absent", "malformed", "null", "empty_list", "empty_dict", "list",
     "dict_no_message", "dict_message_num"}

Bodies ==
    {[kind |-> k, message |-> <<>>] : k \in BodyKinds}
    \cup {[kind |-> "dict_message_str", message |-> m] : m \in Messages}

NoBody == [kind |-> "none", message |-> <<>>]

\* the body of an exchange that went through the upstream call: only
\* user_input is kept by the handler after line 91
Parsed == [kind |-> "parsed", message |-> <<>>]

NotCalled == [kind |-> "not_called", text |-> <<>>]

\* outcomes of model.generate_content(...) and response.text
UpstreamOutcomes ==
    {[kind |-> "raise", text |-> e] : e \in ErrTexts}
    \cup {[kind |-> "return", text |-> t] : t \in Texts}
    \cup {[kind |-> "none", text |-> <<>>]}

Slots == 1..MaxReq

Idle == [pc |-> "idle", user_input |-> <<>>, calls |-> 0]

NoExchange ==
    [path |-> "none", method |-> "none", body |-> NoBody, user_input |-> <<>>,
     upstream |-> NotCalled, calls |-> 0, resps |-> 0,
     resp |-> [status |-> 0, body |-> [status |-> "none"]]]

Exchange(path, method, body, ui, up, calls, resp) ==
    [path |-> path, method |-> method, body |-> body, user_input |-> ui,
     upstream |-> up, calls |-> calls, resps |-> 1, resp |-> resp]

(* ------------------------------ startup -------------------------------- *)
Init ==
    /\ pc = "start"
    /\ GEMINI_API_KEY = NoneVal
    /\ configured = FALSE
    /\ model = NoneVal
    /\ idx = 1
    /\ log = <<>>
    /\ inflight = [s \in Slots |-> Idle]
    /\ last = NoExchange

\* Python truthiness of an optional string
Truthy(s) == s # NoneVal /\ s # ""

\* lines 28-36: read the key, configure the client when it is truthy
LoadEnv ==
    /\ pc = "start"
    /\ \E k \in KeyValues :
        /\ GEMINI_API_KEY' = k
        /\ configured' = Truthy(k)
    /\ model' = NoneVal
    /\ pc' = "init"
    /\ UNCHANGED <<idx, log, inflight, last>>

\* lines 45-53, a failed construction: warn and continue with the next name
TryModelFail ==
    /\ log' = Append(log, [name |-> models_to_try[idx], ok |-> FALSE])
    /\ idx' = idx + 1
    /\ model' = model
    /\ pc' = IF idx + 1 > Len(models_to_try) THEN "check" ELSE "init"

\* a successful construction that keeps the handle but does not break
TryModelOkNoBreak ==
    /\ log' = Append(log, [name |-> models_to_try[idx], ok |-> TRUE])
    /\ model' = models_to_try[idx]
    /\ idx' = idx + 1
    /\ pc' = IF idx + 1 > Len(models_to_try) THEN "check" ELSE "init"

\* lines 45-50, a successful construction: keep the handle and break
TryModelOk ==
    /\ log' = Append(log, [name |-> models_to_try[idx], ok |-> TRUE])
    /\ model' = models_to_try[idx]
    /\ idx' = idx
    /\ pc' = "check"

\* one iteration of the loop over models_to_try
TryModel ==
    /\ pc = "init"
    /\ idx <= Len(models_to_try)
    /\ (TryModelOk \/ TryModelFail)
    /\ UNCHANGED <<GEMINI_API_KEY, configured, inflight, last>>

\* lines 55-56, then the server starts
FinishInit ==
    /\ pc = "check"
    /\ pc' = "serving"
    /\ UNCHANGED <<GEMINI_API_KEY, configured, model, idx, log, inflight, last>>

(* --------------------------- /api/health ------------------------------- *)
\* lines 65-70
health_model_name == IF model # NoneVal THEN fstr("models/", model) ELSE lit("Unknown")

\* lines 72-77
health_response ==
    [status |-> 200,
     body |-> [status |-> "ok", timestamp |-> "now",
               gemini_configured |-> (GEMINI_API_KEY # NoneVal),
               model |-> health_model_name]]

health_check ==
    /\ pc = "serving"
    /\ last' = Exchange("/api/health", "GET", NoBody, <<>>, NotCalled, 0, health_response)
    /\ UNCHANGED <<pc, GEMINI_API_KEY, configured, model, idx, log, inflight>>

(* -------------------------- /api/ai-doctor ----------------------------- *)
\* request.get_json(): the parsed value, or an exception.  Without a JSON
\* content type Flask returns None (before 2.1) or raises 415 (from 2.1).
get_json(body) ==
    CASE body.kind = "malformed" -> {[kind |-> "raise", text |-> e] : e \in ErrTexts}
      [] body.kind = "absent" ->
            {[kind |-> "value", text |-> <<>>]}
            \cup {[kind |-> "raise", text |-> e] : e \in ErrTexts}
      [] OTHER -> {[kind |-> "value", text |-> <<>>]}

\* str(e) of the AttributeError raised by data.get on a non-dict body or by
\* .strip() on a non-string message; <<>> stands for no exception
attribute_error(body, g) ==
    IF g.kind = "value" /\ body.kind \in {"list", "dict_message_num"}
    THEN ErrTexts ELSE {<<>>}

\* "not data"
Falsy(body) == body.kind \in {"absent", "null", "empty_list", "empty_dict"}

\* lines 189-194
server_error(text) ==
    [status |-> 500,
     body |-> [error |-> fstr("Server error: ", Slice(text, TruncLen)), success |-> FALSE]]

no_json == [status |-> 400, body |-> [error |-> lit("No JSON data provided")]]

empty_message == [status |-> 400, body |-> [error |-> lit("Message cannot be empty")]]

not_initialized ==
    [status |-> 500,
     body |-> [error |-> lit("AI model not initialized. Check your API key and try restarting."),
               success |-> FALSE]]

\* data.get("message", "").strip(), for a dict whose message is a string or
\* is missing
user_input_of(body) ==
    IF body.kind = "dict_message_str" THEN strip(body.message) ELSE <<>>

\* lines 85-100 without the "if not model" check
ai_doctor_pre_NoModelCheck(body, g, e) ==
    IF g.kind = "raise" THEN [k |-> "respond", resp |-> server_error(g.text)]
    ELSE IF Falsy(body) THEN [k |-> "respond", resp |-> no_json]
    ELSE IF body.kind \in {"list", "dict_message_num"}
        THEN [k |-> "respond", resp |-> server_error(e)]
    ELSE IF user_input_of(body) = <<>> THEN [k |-> "respond", resp |-> empty_message]
    ELSE [k |-> "call", resp |-> not_initialized]

\* lines 85-100 for a body and a get_json outcome g and an exception text e
\* for the AttributeError of a non-dict body or a non-string message:
\* either a response, or the decision to call upstream
ai_doctor_pre(body, g, e) ==
    IF g.kind = "raise" THEN [k |-> "respond", resp |-> server_error(g.text)]
    ELSE IF Falsy(body) THEN [k |-> "respond", resp |-> no_json]
    ELSE IF body.kind \in {"list", "dict_message_num"}
        THEN [k |-> "respond", resp |-> server_error(e)]
    ELSE IF user_input_of(body) = <<>> THEN [k |-> "respond", resp |-> empty_message]
    ELSE IF model = NoneVal THEN [k |-> "respond", resp |-> not_initialized]
    ELSE [k |-> "call", resp |-> not_initialized]

\* lines 82-83
ai_doctor_options(s) ==
    /\ pc = "serving"
    /\ inflight[s].pc = "idle"
    /\ last' = Exchange("/api/ai-doctor", "OPTIONS", NoBody, <<>>, NotCalled, 0,
                        [status |-> 200, body |-> [status |-> "ok"]])
    /\ UNCHANGED <<pc, GEMINI_API_KEY, configured, model, idx, log, inflight>>

\* lines 85-164: a POST up to its response or to the upstream call
ai_doctor_receive(s) ==
    /\ pc = "serving"
    /\ inflight[s].pc = "idle"
    /\ \E body \in Bodies : \E g \in get_json(body) : \E e \in attribute_error(body, g) :
        LET d == ai_doctor_pre(body, g, e) IN
        IF d.k = "respond"
        THEN /\ last' = Exchange("/api/ai-doctor", "POST", body, user_input_of(body),
                                 NotCalled, 0, d.resp)
             /\ UNCHANGED inflight
        ELSE /\ inflight' = [inflight EXCEPT ![s] =
                    [pc |-> "calling", user_input |-> user_input_of(body), calls |-> 1]]
             /\ UNCHANGED last
    /\ UNCHANGED <<pc, GEMINI_API_KEY, configured, model, idx, log>>

\* lines 166-187 with the returned text trimmed before it is sent
ai_doctor_post_Stripped(o) ==
    IF o.kind = "raise"
    THEN [status |-> 500,
          body |-> [error |-> fstr("API Error: ", Slice(o.text, TruncLen)),
                    success |-> FALSE]]
    ELSE IF o.kind = "return" /\ o.text # <<>>
    THEN [status |-> 200,
          body |-> [success |-> TRUE, response |-> strip(o.text), timestamp |-> "now"]]
    ELSE [status |-> 500,
          body |-> [error |-> lit("AI model returned empty response. Try again."),
                    success |-> FALSE]]

\* lines 166-187: the response for an upstream outcome
ai_doctor_post(o) ==
    IF o.kind = "raise"
    THEN [status |-> 500,
          body |-> [error |-> fstr("API Error: ", Slice(o.text, TruncLen)),
                    success |-> FALSE]]
    ELSE IF o.kind = "return" /\ o.text # <<>>
    THEN [status |-> 200,
          body |-> [success |-> TRUE, response |-> o.text, timestamp |-> "now"]]
    ELSE [status |-> 500,
          body |-> [error |-> lit("AI model returned empty response. Try again."),
                    success |-> FALSE]]

\* a handler that drops the model handle when the upstream call raises
ai_doctor_complete_DropsModel(s, o) ==
    /\ inflight[s].pc = "calling"
    /\ last' = Exchange("/api/ai-doctor", "POST", Parsed, inflight[s].user_input,
                        o, inflight[s].calls, ai_doctor_post(o))
    /\ inflight' = [inflight EXCEPT ![s] = Idle]
    /\ model' = IF o.kind = "raise" THEN NoneVal ELSE model
    /\ UNCHANGED <<pc, GEMINI_API_KEY, configured, idx, log>>

\* a handler that calls upstream a second time when the first call raises
ai_doctor_complete_Retry(s, o) ==
    /\ inflight[s].pc = "calling"
    /\ IF o.kind = "raise" /\ inflight[s].calls < 2
       THEN /\ inflight' = [inflight EXCEPT ![s].calls = @ + 1]
            /\ UNCHANGED last
       ELSE /\ last' = Exchange("/api/ai-doctor", "POST", Parsed, inflight[s].user_input,
                               o, inflight[s].calls, ai_doctor_post(o))
            /\ inflight' = [inflight EXCEPT ![s] = Idle]
    /\ UNCHANGED <<pc, GEMINI_API_KEY, configured, model, idx, log>>

\* the upstream call of slot s ends with outcome o and the handler responds
ai_doctor_complete(s, o) ==
    /\ inflight[s].pc = "calling"
    /\ last' = Exchange("/api/ai-doctor", "POST", Parsed, inflight[s].user_input,
                        o, inflight[s].calls, ai_doctor_post(o))
    /\ inflight' = [inflight EXCEPT ![s] = Idle]
    /\ UNCHANGED <<pc, GEMINI_API_KEY, configured, model, idx, log>>

Next ==
    \/ LoadEnv
    \/ TryModel
    \/ FinishInit
    \/ health_check
    \/ \E s \in Slots : ai_doctor_options(s)
    \/ \E s \in Slots : ai_doctor_receive(s)
    \/ \E s \in Slots : \E o \in UpstreamOutcomes : ai_doctor_complete(s, o)

Spec == Init /\ [][Next]_vars

(* ------------------------------ claims --------------------------------- *)
IsPost == last.path = "/api/ai-doctor" /\ last.method = "POST"

NotInitializedText == lit("AI model not initialized. Check your API key and try restarting.")

\* C1, as stated: every POST to /api/ai-doctor made while no model handle is
\* available is answered 500 "AI model not initialized...", whatever the body.
C1_AnyBodyNotInitialized ==
    (IsPost /\ model = NoneVal) =>
        (last.resp.status = 500 /\ last.resp.body.error = NotInitializedText)

\* C1, amended: a POST made while no model handle is available whose message
\* is non-empty after trimming is answered 500 "AI model not initialized...".
C1_ValidMessageNotInitialized ==
    (IsPost /\ model = NoneVal /\ last.user_input # <<>>) =>
        (last.resp.status = 500 /\ last.resp.body.error = NotInitializedText
         /\ last.resp.body.success = FALSE)

C1_Witness ==
    /\ IsPost /\ model = NoneVal /\ last.user_input # <<>>
    /\ last.body.kind = "dict_message_str" /\ last.body.message # last.user_input

\* C2: a POST whose body is missing or does not parse as JSON is answered
\* 400 "No JSON data provided", never a 500.
C2_MissingOrMalformedIs400 ==
    (IsPost /\ last.body.kind \in {"absent", "malformed"}) =>
        (last.resp.status = 400 /\ last.resp.body.error = lit("No JSON data provided"))

\* C3: a POST whose JSON body has an empty, whitespace-only or missing
\* message (the body {} included) is answered 400 "Message cannot be empty"
\* with success absent or false.
C3_EmptyMessageIs400 ==
    (IsPost /\ (\/ last.body.kind \in {"empty_dict", "dict_no_message"}
                \/ (last.body.kind = "dict_message_str" /\ strip(last.body.message) = <<>>))) =>
        (/\ last.resp.status = 400
         /\ last.resp.body.error = lit("Message cannot be empty")
         /\ ("success" \in DOMAIN last.resp.body => last.resp.body.success = FALSE))

\* C4: with GEMINI_API_KEY absent at startup no candidate model is attempted
\* and the handle is unset once startup finishes, so a validated POST is
\* answered 500 "AI model not initialized".
C4_NoKeyNoModel ==
    (pc = "serving" /\ GEMINI_API_KEY = NoneVal) =>
        (/\ log = <<>>
         /\ model = NoneVal
         /\ (IsPost /\ last.user_input # <<>>) =>
                (last.resp.status = 500 /\ last.resp.body.error = NotInitializedText))

\* C5, as stated: a POST whose trimmed message is non-empty, with a model
\* handle present, is answered 200 with success true and a non-empty response
\* equal to the upstream text.
C5_HandlePresentIs200 ==
    (IsPost /\ last.user_input # <<>> /\ model # NoneVal) =>
        (/\ last.resp.status = 200
         /\ last.resp.body.success = TRUE
         /\ last.resp.body.response # <<>>
         /\ last.resp.body.response = last.upstream.text)

\* C5, amended: a POST whose trimmed message is non-empty, with a model handle
\* present and an upstream call that returns non-empty text, is answered 200
\* with success true and a non-empty response equal to the upstream text.
C5_UpstreamTextIs200 ==
    (IsPost /\ last.user_input # <<>> /\ model # NoneVal
     /\ last.upstream.kind = "return" /\ last.upstream.text # <<>>) =>
        (/\ last.resp.status = 200
         /\ last.resp.body.success = TRUE
         /\ last.resp.body.response # <<>>
         /\ last.resp.body.response = last.upstream.text)

C5_Witness ==
    /\ IsPost /\ last.user_input # <<>> /\ model # NoneVal
    /\ last.upstream.kind = "return" /\ last.upstream.text = <<" ">>
    /\ last.resp.status = 200

\* C6: when the upstream call raises, the response is 500 with success false
\* and error "API Error: " followed by the first 100 characters of the error
\* text: all of it up to 100 characters, exactly 100 when it is longer.
C6_ApiErrorTruncated ==
    (IsPost /\ last.upstream.kind = "raise") =>
        LET t == last.upstream.text
            r == last.resp.body.error.text
        IN  /\ last.resp.status = 500
            /\ last.resp.body.success = FALSE
            /\ last.resp.body.error.prefix = "API Error: "
            /\ Len(r) = (IF Len(t) <= 100 THEN Len(t) ELSE 100)
            /\ \A i \in 1..Len(r) : r[i] = t[i]

C6_Witness ==
    /\ IsPost /\ last.upstream.kind = "raise"
    /\ Len(last.upstream.text) > 100
    /\ Len(last.resp.body.error.text) = 100

\* C8: startup tries the candidates in list order and stops at the first that
\* constructs: the handle is the first succeeding candidate, none after it is
\* attempted, and the handle is unset exactly when every candidate failed.
C8_FirstSuccessWins ==
    (pc \in {"check", "serving"}) =>
        (/\ Len(log) <= Len(models_to_try)
         /\ \A i \in 1..Len(log) : log[i].name = models_to_try[i]
         /\ \A i \in 1..(Len(log) - 1) : ~log[i].ok
         /\ (model # NoneVal =>
                (Len(log) >= 1 /\ log[Len(log)].ok /\ model = log[Len(log)].name))
         /\ (model = NoneVal <=>
                (Len(log) = Len(models_to_try) /\ \A i \in 1..Len(log) : ~log[i].ok)))

C8_Witness ==
    /\ pc = "serving"
    /\ model = models_to_try[3]
    /\ Len(log) = 3

\* C9: after startup completes the model handle never changes and startup is
\* never run again, whatever requests are handled.
C9_HandleImmutable ==
    [][pc = "serving" => (model' = model /\ pc' = "serving" /\ log' = log /\ idx' = idx)]_vars

C9_Witness ==
    /\ pc = "serving" /\ model # NoneVal
    /\ IsPost /\ last.upstream.kind = "raise"
    /\ \E s \in Slots : inflight[s].pc = "calling"

\* C10: a request to /api/ai-doctor issues at most one upstream call and gets
\* exactly one response; OPTIONS (200 {status: "ok"}) and requests rejected by
\* the JSON, message or handle checks issue none; a failed call is not retried.
C10_AtMostOneCall ==
    /\ \A s \in Slots :
        /\ inflight[s].calls <= 1
        /\ (inflight[s].pc = "calling" <=> inflight[s].calls = 1)
    /\ last.path = "/api/ai-doctor" =>
        (/\ last.resps = 1
         /\ last.calls <= 1
         /\ (last.method = "OPTIONS" =>
                (last.calls = 0 /\ last.resp = [status |-> 200, body |-> [status |-> "ok"]]))
         /\ (last.upstream.kind = "not_called" <=> last.calls = 0)
         /\ (last.resp.status = 400 => last.calls = 0)
         /\ ((last.resp.status = 500 /\ last.resp.body.error = NotInitializedText)
                => last.calls = 0)
         /\ (last.upstream.kind = "raise" => last.calls = 1))

C10_Witness ==
    /\ IsPost /\ last.upstream.kind = "raise" /\ last.calls = 1
    /\ last.resp.status = 500
    /\ \A s \in Slots : inflight[s].pc = "idle"

\* C7: GET /api/health answers 200 and gemini_configured is true exactly when
\* an API key was present at startup, the condition under which the client
\* was configured.
C7_HealthReflectsKey ==
    (last.path = "/api/health") =>
        (last.resp.status = 200 /\ last.resp.body.gemini_configured = configured)

====
